---------------------------- MODULE Spec2Model ----------------------------
(*
  Mistral decoder (EasyDel/modules/mistral/modelling_mistral_flax.py):
  the key/value cache of one attention layer, the masks an attention call
  builds, the top-level forward call and the sharding rules.

  Tensors are modelled by what the properties read of them: a buffer is the
  sequence of its slots along the sequence axis (0 is a zero-filled slot,
  t > 0 the key of the t-th appended token, -t its value), a mask is the
  sequence of its booleans along the key axis together with its rank.
*)
EXTENDS Integers, Sequences, FiniteSets, TLC

(* ------------------------------ bounds ------------------------------ *)

\* most tokens passed in one call (so the longest cache buffer, which takes
\* its length from the call that creates it)
MaxLen == 4

\* appends are followed up to one token past the longest buffer
MaxIndex == MaxLen + 1

\* a caller's attention mask marks no or one leading key position as padding
Pads == {0, 1}

(* ------------------------------ helpers ----------------------------- *)

Min(a, b) == IF a <= b THEN a ELSE b

Max(a, b) == IF a >= b THEN a ELSE b

\* jax.lax clamps the start index of a dynamic slice so that the slice fits
ClampStart(start, size, operand) == Max(0, Min(start, operand - size))

(* --------------------------- configuration -------------------------- *)

\* MistralConfig fields the model reads; 8/2/1 is the small grouped-query
\* shape, 8/2/2 has one key/value head per query head, 10/4/2 is a hidden
\* size the head count does not divide. The causal
\* mask length c_max_position_embeddings is scaled to the sequence bound:
\* one value shorter than the longest sequence, one that never clamps.
\* Two decoder layers; one config ties the word embeddings.
Configs ==
    { [hidden_size |-> 8,  num_attention_heads |-> 2, num_key_value_heads |-> 1,
       c_max_position_embeddings |-> c, num_hidden_layers |-> 2,
       tie_word_embeddings |-> FALSE] : c \in {MaxLen - 1, 2 * MaxLen} }
    \cup
    { [hidden_size |-> 8,  num_attention_heads |-> 2, num_key_value_heads |-> 2,
       c_max_position_embeddings |-> 2 * MaxLen, num_hidden_layers |-> 2,
       tie_word_embeddings |-> t] : t \in BOOLEAN }
    \cup
    { [hidden_size |-> 10, num_attention_heads |-> 4, num_key_value_heads |-> 2,
       c_max_position_embeddings |-> MaxLen, num_hidden_layers |-> 2,
       tie_word_embeddings |-> FALSE] }

VARIABLES
    config,        \* the MistralConfig the module was given
    attn,          \* fields FlaxMistralAttention.setup derives
    cache,         \* the 'cache' collection of the attention layer the caller holds
    params_cache,  \* the "cache" entry line 556 leaves in the params mapping
                   \* (NoCache: none)
    last,          \* the last operation: arguments, outcome, values it computed
    plan           \* the resolution of one parameter name against the rules

vars == <<config, attn, cache, params_cache, last, plan>>

(* ------------------------------ values ------------------------------ *)

\* no 'cache' collection
NoCache == [present |-> FALSE, key |-> <<>>, value |-> <<>>, index |-> 0]

\* an argument that was not passed (None)
NoMask == [ndim |-> 0, vals |-> <<>>]

\* a tuple output that is None, and one that is the tuple vals
None == [some |-> FALSE, vals |-> <<>>]

Some(vals) == [some |-> TRUE, vals |-> vals]

\* a hidden state is told by the number of decoder layers applied to the
\* embeddings and by whether the final norm was applied
Hidden(k, normed) == [layers |-> k, normed |-> normed]

\* no logits
NoLogits == [via |-> "none", of |-> Hidden(0, FALSE)]

NoLast ==
    [op |-> "none", status |-> "ok", q_len |-> 0, given_cache |-> FALSE,
     given_pos |-> FALSE, given_mask |-> NoMask, before |-> NoCache,
     scope |-> NoCache, start |-> 0, ran |-> FALSE, combined |-> FALSE,
     pairs |-> {}, position_ids |-> <<>>, attention_mask |-> <<>>,
     returned |-> NoCache, x |-> <<>>, n_rep |-> 0, out |-> <<>>,
     buffer |-> <<>>, update |-> <<>>, written |-> {},
     output_attentions |-> FALSE, output_hidden_states |-> FALSE,
     hidden_states |-> None, attentions |-> None, logits |-> NoLogits,
     caches |-> <<>>, max_length |-> 0, cursor |-> 0, next_position_ids |-> <<>>]

Unbuilt ==
    [built |-> FALSE, head_dim |-> 0, num_heads |-> 0,
     num_key_value_heads |-> 0, num_key_value_groups |-> 0]

\* FlaxMistralAttention.setup: the derived sizes; no check of the split
setup(c) ==
    [built |-> TRUE,
     head_dim |-> c.hidden_size \div c.num_attention_heads,
     num_heads |-> c.num_attention_heads,
     num_key_value_heads |-> c.num_key_value_heads,
     num_key_value_groups |-> c.num_attention_heads \div c.num_key_value_heads]

\* jnp.zeros(k.shape): a buffer of n zero-filled slots
Zeros(n) == [i \in 1..n |-> 0]

\* the keys of the n tokens passed after `index` tokens, and their values
NewKeys(index, n) == [a \in 1..n |-> index + a]

NewValues(index, n) == [a \in 1..n |-> 0 - (index + a)]

\* jax.lax.dynamic_update_slice along the sequence axis: the start is clamped
dynamic_update_slice(operand, update, start) ==
    LET s == ClampStart(start, Len(update), Len(operand))
    IN  [p \in 1..Len(operand) |->
            IF p > s /\ p <= s + Len(update) THEN update[p - s] ELSE operand[p]]

\* concatenate_to_cache_ with the index advanced by one per call instead of
\* by the number of tokens
concatenate_to_cache_by_one(c, q_len) ==
    IF ~c.present
    THEN [present |-> TRUE, key |-> Zeros(q_len), value |-> Zeros(q_len), index |-> 0]
    ELSE [present |-> TRUE,
          key   |-> dynamic_update_slice(c.key, NewKeys(c.index, q_len), c.index),
          value |-> dynamic_update_slice(c.value, NewValues(c.index, q_len), c.index),
          index |-> c.index + 1]

\* concatenate_to_cache_, lines 299-311: the cache variables after the call.
\* Without a cache the variables are created (zeros of k's shape, index 0);
\* with one, k and v are written at the index and the index advances.
concatenate_to_cache_(c, q_len) ==
    IF ~c.present
    THEN [present |-> TRUE, key |-> Zeros(q_len), value |-> Zeros(q_len), index |-> 0]
    ELSE [present |-> TRUE,
          key   |-> dynamic_update_slice(c.key, NewKeys(c.index, q_len), c.index),
          value |-> dynamic_update_slice(c.value, NewValues(c.index, q_len), c.index),
          index |-> c.index + q_len]

\* dynamic_update_slice rejects an update longer than its operand (line 306)
UpdateFits(c, q_len) == ~c.present \/ q_len <= Len(c.key)

(* ----------------------------- attention ---------------------------- *)

\* nn.make_causal_mask: row i allows the key columns j <= i (0-based)
make_causal_mask(i, j) == j <= i

\* MaskAt with the caller's mask left out of the combination
MaskAt_ignored(mask, j) == TRUE

\* the value a mask holds for key column j (0-based); a key axis of length 1
\* broadcasts
MaskAt(mask, j) ==
    IF Len(mask.vals) = 1 THEN mask.vals[1] ELSE mask.vals[j + 1]

\* a key axis of length n broadcasts against m key columns
Broadcasts(n, m) == n = 1 \/ n = m

\* line 361: jnp.expand_dims(attention_mask, axis=(-3, -2)) adds two axes to
\* whatever rank the mask has; jnp.broadcast_to takes it to the 4-d shape of
\* the causal mask and rejects a mask of more than 4 axes
expand_dims(ndim) == ndim + 2

BroadcastTo4(ndim) == ndim <= 4

\* lines 363-367: jax.lax.select(attention_mask > 0, 0.0, finfo(dtype).min)
attention_bias(allowed) == IF allowed THEN "0.0" ELSE "finfo.min"

\* the first row of the causal mask the call reads (lines 351-358): with a
\* cache variable the rows start at the cache index as it is when line 352
\* reads it, that is after concatenate_to_cache_ advanced it
mask_shift(scope) == scope.index

\* FlaxMistralAttention.__call__, lines 330-385, for q_len tokens, on the
\* cache collection c (NoCache: none), with the attention mask as passed.
\* The result: the outcome, the cache variables in the call's scope, and
\* the (query position, key position) pairs its masks admit.
AttentionCall(c, q_len, mask, init_cache, mutable) ==
    LET cmax    == config.c_max_position_embeddings
        uses    == c.present \/ init_cache                      \* line 346
        fits    == UpdateFits(c, q_len)                         \* line 306
        scope   == IF uses /\ fits THEN concatenate_to_cache_(c, q_len) ELSE c
        ml      == Len(scope.key)
        start   == IF c.present THEN ClampStart(c.index, q_len, Len(c.key)) ELSE 0
        \* line 312-316: pad_mask has the rank of the buffers (4)
        rankOk  == mask.ndim = 4
        bcastOk == Broadcasts(Len(mask.vals), ml)
        m316    == IF c.present
                   THEN [ndim |-> 4,
                         vals |-> [p \in 1..ml |->
                                     (p - 1 < scope.index) /\ MaskAt(mask, p - 1)]]
                   ELSE mask
        q_l     == q_len
        k_l     == IF c.present THEN ml ELSE q_len
        \* lines 351-358
        sliceOk == ~uses \/ (q_l <= cmax /\ ml <= cmax)
        row0    == IF uses THEN ClampStart(mask_shift(scope), q_l, cmax) ELSE 0
        nrows   == IF uses THEN q_l ELSE Min(q_l, cmax)
        ncols   == IF uses THEN ml ELSE Min(k_l, cmax)
        \* line 361
        rank361 == BroadcastTo4(expand_dims(m316.ndim))
        len361  == Broadcasts(Len(m316.vals), ncols)
        \* line 369: the bias must fit the [q_l, k_l] scores
        biasOk  == nrows = q_l /\ ncols = k_l
        \* line 382: reshape to hidden_size
        splitOk == attn.num_heads * attn.head_dim = config.hidden_size
        status  ==
            IF uses /\ ~fits THEN "TypeError_306"
            ELSE IF c.present /\ ~mutable THEN "ModifyScopeVariableError_308"
            ELSE IF c.present /\ ~rankOk THEN "AssertionError_316"
            ELSE IF c.present /\ ~bcastOk THEN "ValueError_316"
            ELSE IF ~sliceOk THEN "TypeError_354"
            ELSE IF ~rank361 \/ ~len361 THEN "ValueError_361"
            ELSE IF ~biasOk THEN "TypeError_369"
            ELSE IF ~splitOk THEN "TypeError_382"
            ELSE "ok"
        masked  == status \in {"ValueError_361", "TypeError_369", "TypeError_382", "ok"}
                   /\ Broadcasts(Len(m316.vals), ncols)
        pairs   == IF masked
                   THEN { <<start + x[1], x[2]>> :
                            x \in { y \in (0..(nrows - 1)) \X (0..(ncols - 1)) :
                                      /\ make_causal_mask(row0 + y[1], y[2])
                                      /\ MaskAt(m316, y[2]) } }
                   ELSE {}
    IN  [status   |-> status,
         scope    |-> IF status \in {"TypeError_306", "ModifyScopeVariableError_308"}
                      THEN c ELSE scope,
         start    |-> start,
         combined |-> status \in {"TypeError_369", "TypeError_382", "ok"},
         pairs    |-> pairs]

(* ------------------------------ shapes ------------------------------- *)

\* the largest batch size, head count and head_dim of a tensor
MaxDim == 2

\* the shapes [batch, length, heads, head_dim] of tensors of the given length
Shapes(length) == { <<b, length, h, d>> : b \in 1..MaxDim, h \in 1..MaxDim, d \in 1..MaxDim }

\* jax.lax.dynamic_update_slice accepts an update that is, along every axis,
\* no larger than the operand
UpdateShapeFits(operand, update) ==
    /\ Len(operand) = Len(update)
    /\ \A a \in 1..Len(operand) : update[a] <= operand[a]

\* the elements [batch row, position, head, feature] (counted from 0) that
\* dynamic_update_slice writes for an update placed at `index` along the
\* sequence axis and at 0 along the others
UpdatedElements(operand, update, index) ==
    LET s == ClampStart(index, update[2], operand[2])
    IN  { <<b, s + p, h, d>> : b \in 0..(update[1] - 1), p \in 0..(update[2] - 1),
                               h \in 0..(update[3] - 1), d \in 0..(update[4] - 1) }

(* --------------------------- head replication ------------------------ *)

\* most key/value heads, and the largest ratio of query heads to them
MaxHeads == 3

\* a tensor along its heads axis is the sequence of its heads, a head being
\* named by a number
HeadTensors == UNION { [1..n -> 1..MaxHeads] : n \in 1..MaxHeads }

\* jnp.repeat(x[:, :, jnp.newaxis, :, :], n_rep, axis=2): n_rep copies of
\* the whole heads axis, one after the other along the new axis
repeat(x, n_rep) == [r \in 1..n_rep |-> x]

\* reshape of the [n_rep, n_kv_heads] axes to one axis, in row-major order
reshape(m, rows, cols) ==
    [h \in 1..(rows * cols) |-> m[((h - 1) \div cols) + 1][((h - 1) % cols) + 1]]

\* repeat_kv, lines 160-169
repeat_kv(x, n_rep) ==
    IF n_rep = 1 THEN x ELSE reshape(repeat(x, n_rep), n_rep, Len(x))

\* the head count of the keys and values concatenate_to_cache_ is given,
\* and so of the buffers it creates (line 300): k and v after repeat_kv
\* (lines 344-345)
cache_heads(a) ==
    Len(repeat_kv([h \in 1..a.num_key_value_heads |-> h], a.num_key_value_groups))

(* ------------------------- partition rules --------------------------- *)

\* A parameter name is the sequence of its path segments. A rule's pattern
\* is a sequence of sets of segments, one set per path segment (the
\* alternatives of a group such as (q_proj|k_proj|v_proj)); '.*' is the
\* empty pattern. PS(...) is the sequence of its entries, None among them.
Wildcard == <<>>

\* get_partition_rules without the trailing '.*' rule
get_partition_rules_no_wildcard(fully_fsdp) ==
    IF ~fully_fsdp
    THEN << [pattern |-> <<{"model"}, {"embed_tokens"}, {"embedding"}>>, ps |-> <<"dp", "fsdp">>],
            [pattern |-> <<{"self_attn"}, {"q_proj", "k_proj", "v_proj"}, {"kernel"}>>, ps |-> <<"fsdp", "dp">>],
            [pattern |-> <<{"self_attn"}, {"o_proj"}, {"kernel"}>>, ps |-> <<"dp", "fsdp">>],
            [pattern |-> <<{"mlp"}, {"gate_proj"}, {"kernel"}>>, ps |-> <<"fsdp", "dp">>],
            [pattern |-> <<{"mlp"}, {"down_proj"}, {"kernel"}>>, ps |-> <<"dp", "fsdp">>],
            [pattern |-> <<{"mlp"}, {"up_proj"}, {"kernel"}>>, ps |-> <<"fsdp", "dp">>],
            [pattern |-> <<{"input_layernorm"}, {"kernel"}>>, ps |-> <<"None">>],
            [pattern |-> <<{"post_attention_layernorm"}, {"kernel"}>>, ps |-> <<"None">>],
            [pattern |-> <<{"model"}, {"norm"}, {"kernel"}>>, ps |-> <<"None">>],
            [pattern |-> <<{"lm_head"}, {"kernel"}>>, ps |-> <<"fsdp", "dp">>] >>
    ELSE << [pattern |-> <<{"model"}, {"embed_tokens"}, {"embedding"}>>, ps |-> <<"fsdp">>],
            [pattern |-> <<{"self_attn"}, {"q_proj", "k_proj", "v_proj"}, {"kernel"}>>, ps |-> <<"fsdp">>],
            [pattern |-> <<{"self_attn"}, {"o_proj"}, {"kernel"}>>, ps |-> <<"fsdp">>],
            [pattern |-> <<{"mlp"}, {"gate_proj"}, {"kernel"}>>, ps |-> <<"fsdp">>],
            [pattern |-> <<{"mlp"}, {"down_proj"}, {"kernel"}>>, ps |-> <<"fsdp">>],
            [pattern |-> <<{"mlp"}, {"up_proj"}, {"kernel"}>>, ps |-> <<"fsdp">>],
            [pattern |-> <<{"input_layernorm"}, {"kernel"}>>, ps |-> <<"None">>],
            [pattern |-> <<{"post_attention_layernorm"}, {"kernel"}>>, ps |-> <<"None">>],
            [pattern |-> <<{"model"}, {"norm"}, {"kernel"}>>, ps |-> <<"None">>],
            [pattern |-> <<{"lm_head"}, {"kernel"}>>, ps |-> <<"fsdp">>] >>

\* MistralConfig.get_partition_rules, lines 87-123, in declared order
get_partition_rules(fully_fsdp) ==
    IF ~fully_fsdp
    THEN << [pattern |-> <<{"model"}, {"embed_tokens"}, {"embedding"}>>, ps |-> <<"dp", "fsdp">>],
            [pattern |-> <<{"self_attn"}, {"q_proj", "k_proj", "v_proj"}, {"kernel"}>>, ps |-> <<"fsdp", "dp">>],
            [pattern |-> <<{"self_attn"}, {"o_proj"}, {"kernel"}>>, ps |-> <<"dp", "fsdp">>],
            [pattern |-> <<{"mlp"}, {"gate_proj"}, {"kernel"}>>, ps |-> <<"fsdp", "dp">>],
            [pattern |-> <<{"mlp"}, {"down_proj"}, {"kernel"}>>, ps |-> <<"dp", "fsdp">>],
            [pattern |-> <<{"mlp"}, {"up_proj"}, {"kernel"}>>, ps |-> <<"fsdp", "dp">>],
            [pattern |-> <<{"input_layernorm"}, {"kernel"}>>, ps |-> <<"None">>],
            [pattern |-> <<{"post_attention_layernorm"}, {"kernel"}>>, ps |-> <<"None">>],
            [pattern |-> <<{"model"}, {"norm"}, {"kernel"}>>, ps |-> <<"None">>],
            [pattern |-> <<{"lm_head"}, {"kernel"}>>, ps |-> <<"fsdp", "dp">>],
            [pattern |-> Wildcard, ps |-> <<"None">>] >>
    ELSE << [pattern |-> <<{"model"}, {"embed_tokens"}, {"embedding"}>>, ps |-> <<"fsdp">>],
            [pattern |-> <<{"self_attn"}, {"q_proj", "k_proj", "v_proj"}, {"kernel"}>>, ps |-> <<"fsdp">>],
            [pattern |-> <<{"self_attn"}, {"o_proj"}, {"kernel"}>>, ps |-> <<"fsdp">>],
            [pattern |-> <<{"mlp"}, {"gate_proj"}, {"kernel"}>>, ps |-> <<"fsdp">>],
            [pattern |-> <<{"mlp"}, {"down_proj"}, {"kernel"}>>, ps |-> <<"fsdp">>],
            [pattern |-> <<{"mlp"}, {"up_proj"}, {"kernel"}>>, ps |-> <<"fsdp">>],
            [pattern |-> <<{"input_layernorm"}, {"kernel"}>>, ps |-> <<"None">>],
            [pattern |-> <<{"post_attention_layernorm"}, {"kernel"}>>, ps |-> <<"None">>],
            [pattern |-> <<{"model"}, {"norm"}, {"kernel"}>>, ps |-> <<"None">>],
            [pattern |-> <<{"lm_head"}, {"kernel"}>>, ps |-> <<"fsdp">>],
            [pattern |-> Wildcard, ps |-> <<"fsdp">>] >>

\* the names of the decoder layers (FlaxMistralDecoratorCollection, name=str(i))
LayerNames == {"0", "1"}

\* the parameters of one decoder layer below the prefix pre: lines 292-295
\* (projections), 259-261 (mlp), 407-418 with 179-180 (the two norms)
LayerParams(pre) ==
    { pre \o <<"layers", l, "self_attn", m, "kernel">> :
        l \in LayerNames, m \in {"q_proj", "k_proj", "v_proj", "o_proj"} }
    \cup { pre \o <<"layers", l, "mlp", m, "kernel">> :
        l \in LayerNames, m \in {"gate_proj", "up_proj", "down_proj"} }
    \cup { pre \o <<"layers", l, m, "kernel">> :
        l \in LayerNames, m \in {"input_layernorm", "post_attention_layernorm"} }

\* the parameters of FlaxMistralModule below the prefix pre: lines 664-683
ModuleParams(pre) ==
    { pre \o <<"embed_tokens", "embedding">>, pre \o <<"norm", "kernel">> }
    \cup LayerParams(pre)

\* every parameter name the models produce: FlaxMistralForCausalLM keeps the
\* module under "model" beside lm_head (lines 750-764), FlaxMistralModel is
\* the module itself (lines 740-741)
ParamNames ==
    ModuleParams(<<"model">>) \cup { <<"lm_head", "kernel">> } \cup ModuleParams(<<>>)

\* a pattern is found in a name when its segments match somewhere in a row
search(pattern, name) ==
    \E off \in 0..(Len(name) - Len(pattern)) :
        \A k \in 1..Len(pattern) : name[off + k] \in pattern[k]

NoPlan == [active |-> FALSE, done |-> FALSE, fully_fsdp |-> FALSE, name |-> <<>>,
           i |-> 0, matched |-> FALSE, ps |-> <<>>]

(* ------------------------------ actions ----------------------------- *)

Init ==
    /\ config \in Configs
    /\ attn = Unbuilt
    /\ cache = NoCache
    /\ params_cache = NoCache
    /\ last = NoLast
    /\ plan = NoPlan

\* FlaxMistralAttention.setup
Setup ==
    /\ ~attn.built
    /\ attn' = setup(config)
    /\ last' = [NoLast EXCEPT !.op = "setup", !.status = "ok"]
    /\ UNCHANGED <<config, cache, params_cache, plan>>

\* concatenate_to_cache_ applied to the layer's cache collection
ConcatenateToCache(q_len) ==
    /\ attn.built
    /\ cache.index + q_len <= MaxIndex
    /\ IF UpdateFits(cache, q_len)
       THEN /\ cache' = concatenate_to_cache_(cache, q_len)
            /\ last' = [NoLast EXCEPT !.op = "concat", !.status = "ok",
                          !.q_len = q_len, !.given_cache = cache.present,
                          !.before = cache,
                          !.scope = concatenate_to_cache_(cache, q_len),
                          !.start = ClampStart(cache.index, q_len, Len(cache.key))]
       ELSE /\ cache' = cache
            /\ last' = [NoLast EXCEPT !.op = "concat", !.status = "TypeError_306",
                          !.q_len = q_len, !.given_cache = cache.present,
                          !.before = cache, !.scope = cache]
    /\ UNCHANGED <<config, attn, params_cache, plan>>

\* the attention masks a caller passes for n key positions: rank d, the
\* first p positions padding
Masks(ranks, lens) ==
    { [ndim |-> d, vals |-> [i \in 1..n |-> i > p]] :
        d \in ranks, n \in lens, p \in Pads }

\* the all-valid masks of rank d over n key positions
AllValid(ranks, n) == { [ndim |-> d, vals |-> [i \in 1..n |-> TRUE]] : d \in ranks }

\* jnp.ones((batch, n)) as an attention mask
Ones(n) == [ndim |-> 2, vals |-> [i \in 1..n |-> TRUE]]

\* arange counting from one past its start
Arange_from_next(p0, n) == [i \in 1..n |-> p0 + i]

\* jnp.arange(n) offset by p0: the position ids p0 .. p0 + n - 1
Arange(p0, n) == [i \in 1..n |-> p0 + i - 1]

\* FlaxMistralModule.__call__, lines 707-709: a rank-2 mask [b, s] is
\* reshaped to [b, 1, 1, s]
ModuleMask(mask) == IF mask.ndim = 2 THEN [mask EXCEPT !.ndim = 4] ELSE mask

(* ------------------------------ the stack ---------------------------- *)

\* FlaxMistralDecoderLayer.__call__, lines 441-448, after its attention
\* call ended as r
LayerOutputs(r, output_attentions) ==
    [status |-> IF r.status # "ok" THEN r.status
                ELSE IF output_attentions
                     THEN "TypeError_447"   \* line 447: a tuple += an array
                     ELSE "ok",
     scope  |-> r.scope]

\* FlaxMistralDecoderLayer.__call__, lines 430-448, on the layer's cache
\* collection: the outcome and the collection in the call's scope
DecoderLayer(coll, q_len, mask, mutable, output_attentions) ==
    LayerOutputs(AttentionCall(coll, q_len, mask, FALSE, mutable), output_attentions)

\* FlaxMistralDecoratorCollection.__call__, lines 625-653, the calls of its
\* layers ending as o[1], o[2], ...: the layers run in order up to the first
\* that raises. The result: the outcome, the number of layers the hidden
\* state went through, the hidden states collected (the input of every
\* layer the loop entered) and the layers' cache collections in scope
CollectionOutputs(o, output_attentions, output_hidden_states) ==
    LET \* line 651: a bool += a tuple
        raises(l) == o[l].status # "ok" \/ output_attentions
        failed  == { l \in 1..Len(o) : raises(l) }
        first   == CHOOSE l \in failed : \A m \in failed : l <= m
        done    == IF failed = {} THEN Len(o) ELSE first - 1
        entered == IF failed = {} THEN Len(o) ELSE first
    IN  [status |-> IF failed = {} THEN "ok"
                    ELSE IF o[first].status # "ok" THEN o[first].status
                    ELSE "TypeError_651",
         hidden_state |-> done,
         all_hidden_states |-> IF output_hidden_states
                               THEN [l \in 1..entered |-> Hidden(l - 1, FALSE)]
                               ELSE <<>>,
         scopes |-> [l \in 1..done |-> o[l].scope]]

\* FlaxMistralDecoratorCollection.__call__, lines 613-653, each layer on its
\* own cache collection
DecoratorCollection(colls, q_len, mask, mutable, output_attentions, output_hidden_states) ==
    CollectionOutputs([l \in 1..Len(colls) |->
                          DecoderLayer(colls[l], q_len, mask, mutable, output_attentions)],
                      output_attentions, output_hidden_states)

\* FlaxMistralModule.__call__, lines 721-737 (return_dict), the layers
\* having ended as st
ModuleOutputs(st, output_attentions, output_hidden_states) ==
    [status |-> st.status,
     last_hidden_state |-> Hidden(st.hidden_state, TRUE),          \* line 722
     hidden_states |-> IF output_hidden_states
                       THEN Some(Append(st.all_hidden_states,
                                        Hidden(st.hidden_state, TRUE)))
                       ELSE None,
     attentions |-> IF output_attentions THEN Some(<<>>) ELSE None,
     scopes |-> st.scopes]

\* FlaxMistralModule.__call__, lines 705-737
FlaxMistralModule(colls, q_len, attention_mask, mutable, output_attentions, output_hidden_states) ==
    ModuleOutputs(DecoratorCollection(colls, q_len, ModuleMask(attention_mask), mutable,
                                      output_attentions, output_hidden_states),
                  output_attentions, output_hidden_states)

\* FlaxMistralForCausalLMModule.__call__, lines 798-811 (return_dict), the
\* model having ended as o: the module has the attributes model and
\* lm_head, and line 801 reads self.transformer
LMOutputs(o) ==
    LET status == IF o.status # "ok" THEN o.status
                  ELSE IF config.tie_word_embeddings THEN "AttributeError_801"
                  ELSE "ok"
    IN  [status |-> status,
         logits |-> IF status = "ok"
                    THEN [via |-> "lm_head", of |-> o.last_hidden_state]
                    ELSE NoLogits,
         hidden_states |-> IF status = "ok" THEN o.hidden_states ELSE None,
         attentions |-> IF status = "ok" THEN o.attentions ELSE None,
         scopes |-> IF status = "ok" THEN o.scopes ELSE <<>>]

\* FlaxMistralForCausalLMModule.__call__, lines 778-811
FlaxMistralForCausalLMModule(colls, q_len, attention_mask, mutable, output_attentions, output_hidden_states) ==
    LMOutputs(FlaxMistralModule(colls, q_len,
                                IF attention_mask = NoMask THEN Ones(q_len)
                                ELSE attention_mask,                 \* lines 779-780
                                mutable, output_attentions, output_hidden_states))

\* FlaxMistralAttention.__call__ applied directly to the layer, with the
\* caller's cache collection (with_cache) or without it; what the call
\* leaves in the 'cache' collection is what the caller holds afterwards
AttnCall(q_len, mask, with_cache, init_cache) ==
    /\ attn.built
    /\ with_cache => cache.present
    /\ LET c == IF with_cache THEN cache ELSE NoCache
           r == AttentionCall(c, q_len, mask, init_cache, TRUE)
       IN  /\ cache' = IF r.status = "ok" /\ (with_cache \/ init_cache)
                       THEN r.scope ELSE cache
           /\ last' = [NoLast EXCEPT !.op = "attn", !.status = r.status,
                          !.q_len = q_len, !.given_cache = with_cache,
                          !.given_mask = mask, !.before = c, !.scope = r.scope,
                          !.start = r.start, !.ran = TRUE,
                          !.combined = r.combined, !.pairs = r.pairs,
                          !.returned = IF r.status = "ok" /\ (with_cache \/ init_cache)
                                       THEN r.scope ELSE NoCache]
    /\ UNCHANGED <<config, attn, params_cache, plan>>

\* FlaxMistralPretrainedModel.init_cache, lines 507-516: module.init with
\* ones for input_ids and attention_mask and init_cache=True
InitCache(max_length) ==
    /\ attn.built
    /\ LET r == AttentionCall(NoCache, max_length, ModuleMask(Ones(max_length)),
                              TRUE, TRUE)
       IN  /\ cache' = IF r.status = "ok" THEN r.scope ELSE cache
           /\ last' = [NoLast EXCEPT !.op = "init_cache", !.status = r.status,
                          !.q_len = max_length, !.given_mask = Ones(max_length),
                          !.scope = r.scope, !.ran = TRUE,
                          !.combined = r.combined, !.pairs = r.pairs,
                          !.position_ids = Arange(0, max_length),
                          !.attention_mask = Ones(max_length).vals,
                          !.returned = IF r.status = "ok" THEN r.scope ELSE NoCache]
    /\ UNCHANGED <<config, attn, params_cache, plan>>

\* FlaxMistralPretrainedModel.__call__, lines 538-584, for sequence_length
\* tokens: attention_mask NoMask and pos_given FALSE are the arguments left
\* out; with_cache passes the held cache as past_key_values
Forward(sequence_length, attention_mask, pos_given, with_cache, add_params_field) ==
    /\ attn.built
    /\ with_cache => cache.present
    /\ IF ~pos_given /\ with_cache
       THEN \* line 540-542
            /\ last' = [NoLast EXCEPT !.op = "forward", !.status = "ValueError_542",
                           !.q_len = sequence_length, !.given_cache = TRUE,
                           !.given_mask = attention_mask, !.before = cache]
            /\ params_cache' = params_cache
       ELSE LET position_ids == IF pos_given
                                THEN Arange(IF with_cache THEN cache.index ELSE 0,
                                            sequence_length)
                                ELSE Arange(0, sequence_length)          \* line 544
                mask == IF attention_mask = NoMask THEN Ones(sequence_length)
                        ELSE attention_mask                              \* line 547
                \* lines 553-559: without add_params_field `inputs` is the params
                \* mapping itself, and keeps the cache entry written into it
                coll == IF with_cache THEN cache
                        ELSE IF add_params_field THEN NoCache ELSE params_cache
                r == AttentionCall(coll, sequence_length, ModuleMask(mask),
                                   FALSE, with_cache)
            IN  /\ params_cache' = IF with_cache /\ ~add_params_field
                                   THEN cache ELSE params_cache
                /\ last' = [NoLast EXCEPT !.op = "forward", !.status = r.status,
                               !.q_len = sequence_length, !.given_cache = with_cache,
                               !.given_pos = pos_given,
                               !.given_mask = attention_mask, !.before = coll,
                               !.scope = r.scope, !.start = r.start, !.ran = TRUE,
                               !.combined = r.combined, !.pairs = r.pairs,
                               !.position_ids = position_ids,
                               !.attention_mask = mask.vals,
                               !.returned = IF r.status = "ok" /\ with_cache
                                            THEN r.scope ELSE NoCache]
    /\ UNCHANGED <<config, attn, cache, plan>>

\* what a call of the causal-LM model that ended as r leaves to read
LMRecord(r, sequence_length, attention_mask, with_cache, output_attentions, output_hidden_states) ==
    [NoLast EXCEPT !.op = "lm_forward", !.status = r.status,
        !.q_len = sequence_length, !.given_cache = with_cache,
        !.given_pos = TRUE, !.given_mask = attention_mask,
        !.before = IF with_cache THEN cache ELSE NoCache,
        !.ran = TRUE,
        !.position_ids = Arange(IF with_cache THEN cache.index ELSE 0,
                                sequence_length),
        !.attention_mask = IF attention_mask = NoMask
                           THEN Ones(sequence_length).vals      \* line 547
                           ELSE attention_mask.vals,
        !.output_attentions = output_attentions,
        !.output_hidden_states = output_hidden_states,
        !.hidden_states = r.hidden_states,
        !.attentions = r.attentions,
        !.logits = r.logits,
        !.caches = IF with_cache THEN r.scopes ELSE <<>>]

\* FlaxMistralPretrainedModel.__call__, lines 538-584, of the causal-LM
\* model with position_ids passed and add_params_field set: the module is
\* applied to the layers' cache collections, each layer's the one held
\* (with_cache), or to none
LMForward(sequence_length, attention_mask, with_cache, output_attentions, output_hidden_states) ==
    /\ attn.built
    /\ with_cache => cache.present
    /\ last' = LMRecord(
          FlaxMistralForCausalLMModule(
             [l \in 1..config.num_hidden_layers |->
                 IF with_cache THEN cache ELSE NoCache],
             sequence_length,
             IF attention_mask = NoMask THEN Ones(sequence_length)
             ELSE attention_mask,                                   \* line 547
             with_cache, output_attentions, output_hidden_states),
          sequence_length, attention_mask, with_cache,
          output_attentions, output_hidden_states)
    /\ UNCHANGED <<config, attn, cache, params_cache, plan>>

(* ----------------------------- generation ---------------------------- *)

\* attention_mask.cumsum(axis=-1) over a mask of 0/1 entries
cumsum(vals) == [i \in 1..Len(vals) |-> Cardinality({ j \in 1..i : vals[j] })]

\* prepare_inputs_for_generation, lines 822-826: the position ids of the
\* prompt, from the prompt's mask when one is passed
prepare_position_ids(seq_length, attention_mask) ==
    IF attention_mask # NoMask
    THEN [i \in 1..seq_length |-> cumsum(attention_mask.vals)[i] - 1]   \* line 823
    ELSE Arange(0, seq_length)                                          \* line 826

\* prepare_inputs_for_generation, lines 821-824: ones over max_length with
\* the prompt's mask written at its start
extended_attention_mask(max_length, attention_mask) ==
    IF attention_mask # NoMask
    THEN dynamic_update_slice(Ones(max_length).vals, attention_mask.vals, 0)
    ELSE Ones(max_length).vals

\* self.init_cache(batch_size, max_length), lines 507-516, as line 820
\* calls it
PastKeyValues(max_length) ==
    AttentionCall(NoCache, max_length, ModuleMask(Ones(max_length)), TRUE, TRUE)

\* update_inputs_for_generation, line 837: position_ids[:, -1:] + 1
update_inputs_for_generation(position_ids) ==
    <<position_ids[Len(position_ids)] + 1>>

\* prepare_inputs_for_generation, lines 817-832, for a prompt of seq_length
\* tokens: the cache is initialised first, then the mask and the position
\* ids are built
PrepareInputs(seq_length, max_length, attention_mask) ==
    /\ attn.built
    /\ LET r      == PastKeyValues(max_length)
           status == IF r.status # "ok" THEN r.status
                     ELSE IF attention_mask # NoMask /\ seq_length > max_length
                          THEN "TypeError_824"   \* the update exceeds the operand
                          ELSE "ok"
       IN  last' = [NoLast EXCEPT !.op = "prepare", !.status = status,
                       !.q_len = seq_length, !.max_length = max_length,
                       !.given_mask = attention_mask,
                       !.position_ids =
                           IF status = "ok"
                           THEN prepare_position_ids(seq_length, attention_mask)
                           ELSE <<>>,
                       !.attention_mask =
                           IF status = "ok"
                           THEN extended_attention_mask(max_length, attention_mask)
                           ELSE <<>>,
                       !.returned = IF status = "ok" THEN r.scope ELSE NoCache]
    /\ UNCHANGED <<config, attn, cache, params_cache, plan>>

\* update_inputs_for_generation, lines 834-838, after the forward call on
\* the prompt: model_kwargs holds the position ids built for the prompt
\* of seq_length tokens, model_outputs the caches with their cursor behind
\* the prompt
UpdateInputs(seq_length, attention_mask) ==
    /\ last' = [NoLast EXCEPT !.op = "update_inputs",
                   !.q_len = seq_length, !.given_mask = attention_mask,
                   !.position_ids = prepare_position_ids(seq_length, attention_mask),
                   !.cursor = seq_length,
                   !.next_position_ids =
                       update_inputs_for_generation(
                           prepare_position_ids(seq_length, attention_mask))]
    /\ UNCHANGED <<config, attn, cache, params_cache, plan>>

\* the key-axis length of a well-formed mask for a call of q_len tokens
KeyLen(q_len, with_cache) == IF with_cache THEN Len(cache.key) ELSE q_len

\* resolve(name) begins with the first rule of the profile
StartResolve(fully_fsdp, name) ==
    /\ ~plan.active \/ plan.done
    /\ plan' = [NoPlan EXCEPT !.active = TRUE, !.fully_fsdp = fully_fsdp,
                              !.name = name, !.i = 1]
    /\ UNCHANGED <<config, attn, cache, params_cache, last>>

\* resolve(name) tries the rule it stands at: a match is the result, else
\* it moves to the next rule; behind the last rule it ends without a match
TryRule ==
    /\ plan.active /\ ~plan.done
    /\ LET rules == get_partition_rules(plan.fully_fsdp)
       IN  plan' = IF plan.i > Len(rules)
                   THEN [plan EXCEPT !.done = TRUE]
                   ELSE IF search(rules[plan.i].pattern, plan.name)
                        THEN [plan EXCEPT !.done = TRUE, !.matched = TRUE,
                                          !.ps = rules[plan.i].ps]
                        ELSE [plan EXCEPT !.i = plan.i + 1]
    /\ UNCHANGED <<config, attn, cache, params_cache, last>>

\* repeat_kv applied to a tensor of key or value heads
RepeatKV(x, n_rep) ==
    /\ last' = [NoLast EXCEPT !.op = "repeat_kv", !.x = x, !.n_rep = n_rep,
                              !.out = repeat_kv(x, n_rep)]
    /\ UNCHANGED <<config, attn, cache, params_cache, plan>>

\* concatenate_to_cache_, lines 303-311, on an empty cache with buffers of
\* shape `buffer`, given new keys and values of shape `update`
ConcatenateShaped(buffer, update) ==
    /\ attn.built
    /\ LET ok == UpdateShapeFits(buffer, update)
       IN  last' = [NoLast EXCEPT !.op = "concat_shaped",
                       !.status = IF ok THEN "ok" ELSE "TypeError_306",
                       !.q_len = update[2], !.given_cache = TRUE,
                       !.buffer = buffer, !.update = update,
                       !.written = IF ok THEN UpdatedElements(buffer, update, 0) ELSE {},
                       !.start = IF ok THEN update[2] ELSE 0]
    /\ UNCHANGED <<config, attn, cache, params_cache, plan>>

ShapeNext ==
    \/ Setup
    \/ \E buffer \in Shapes(MaxDim), update \in Shapes(1) : ConcatenateShaped(buffer, update)

HeadsNext == \E x \in HeadTensors, n_rep \in 1..MaxHeads : RepeatKV(x, n_rep)

ShardNext ==
    \/ \E fully_fsdp \in BOOLEAN, name \in ParamNames : StartResolve(fully_fsdp, name)
    \/ TryRule

CacheNext ==
    \/ Setup
    \/ \E q_len \in 1..MaxLen : ConcatenateToCache(q_len)

\* a layer's cache is initialised once: a call with init_cache and without
\* the held collection is made only while none is held
AttnNext ==
    \/ CacheNext
    \/ \E q_len \in 1..MaxLen, with_cache, init_cache \in BOOLEAN :
          \E mask \in Masks({2, 4}, {KeyLen(q_len, with_cache)}) :
             /\ init_cache => ~cache.present
             /\ AttnCall(q_len, mask, with_cache, init_cache)

\* the top-level calls; the layer's cache collection they are given is one
\* the attention layer initialised
Next ==
    \/ Setup
    \/ \E max_length \in 1..MaxLen :
          ~cache.present /\ AttnCall(max_length, Ones(max_length), FALSE, TRUE)
    \/ \E max_length \in 1..MaxLen : InitCache(max_length)
    \/ \E s \in 1..MaxLen, pos_given, with_cache, add_params_field \in BOOLEAN :
          \E mask \in {NoMask} \cup AllValid({1, 2}, KeyLen(s, with_cache)) :
             Forward(s, mask, pos_given, with_cache, add_params_field)

\* the causal-LM model called with and without the layers' caches
LMNext ==
    \/ Setup
    \/ \E max_length \in 1..MaxLen :
          ~cache.present /\ AttnCall(max_length, Ones(max_length), FALSE, TRUE)
    \/ \E s \in 1..MaxLen, with_cache, output_attentions, output_hidden_states \in BOOLEAN :
          \E mask \in {NoMask} \cup AllValid({1, 2}, KeyLen(s, with_cache)) :
             LMForward(s, mask, with_cache, output_attentions, output_hidden_states)

\* the inputs of a generation loop, prepared for a prompt and updated
\* after a step
GenNext ==
    \/ Setup
    \/ \E seq_length, max_length \in 1..MaxLen :
          \E mask \in {NoMask} \cup Masks({2}, {seq_length}) :
             PrepareInputs(seq_length, max_length, mask)
    \/ \E seq_length \in 1..MaxLen :
          \E mask \in {NoMask} \cup Masks({2}, {seq_length}) :
             UpdateInputs(seq_length, mask)

\* the cache of one attention layer under concatenate_to_cache_
SpecCache == Init /\ [][CacheNext]_vars

\* the partition rules resolved for the parameter names
SpecShard == Init /\ [][ShardNext]_vars

\* prepare_inputs_for_generation and update_inputs_for_generation
SpecGen == Init /\ [][GenNext]_vars

\* repeat_kv on every small tensor of heads
SpecHeads == Init /\ [][HeadsNext]_vars

\* appends of keys and values of every small shape
SpecShape == Init /\ [][ShapeNext]_vars

\* the causal-LM model over its decoder layers
SpecLM == Init /\ [][LMNext]_vars

\* the attention layer called directly
SpecAttn == Init /\ [][AttnNext]_vars

\* the top-level model
Spec == Init /\ [][Next]_vars

(* ------------------------- the cache (SpecCache) --------------------- *)

\* the last operation was concatenate_to_cache_ on an existing cache
Appended == last.op = "concat" /\ last.given_cache

\* the tokens of the last append do not fit behind the index
Overflows == last.before.index + last.q_len > Len(last.before.key)

\* C1: an append with cursor + new_tokens > max_len ends in an error (any
\* raised error is taken for the CapacityError) and leaves the cursor, the
\* key buffer and the value buffer as they were before the call.
C1_OverflowRejected ==
    (Appended /\ Overflows) => (last.status # "ok" /\ cache = last.before)

\* C2: in every state reached by creating the cache and appending to it,
\* the cursor satisfies 0 <= cursor <= max_len.
C2_CursorWithinBuffer ==
    cache.present => (0 <= cache.index /\ cache.index <= Len(cache.key))

C9_BadSplitRejected ==
    attn.built => attn.head_dim * attn.num_heads = config.hidden_size

(* ---------------------- the attention (SpecAttn) --------------------- *)

\* C3: the masks an attention call builds, cache-free or cached, never
\* admit for a query a key position greater than the query's position, nor
\* a key position the padding mask marks as padding.
C3_CausalAndPadding ==
    last.op = "attn" =>
        \A pr \in last.pairs :
            /\ pr[2] <= pr[1]
            /\ MaskAt(last.given_mask, pr[2])

(* ---------------------- the top-level model (Spec) ------------------- *)

\* the last operation was a top-level call on a cache, with position ids
\* and a [batch, length] attention mask that marks no padding, and with
\* room in the buffers for its tokens
CachedForward ==
    /\ last.op = "forward"
    /\ last.given_cache /\ last.given_pos
    /\ last.given_mask.ndim = 2
    /\ \A j \in 1..Len(last.given_mask.vals) : last.given_mask.vals[j]
    /\ last.before.index + last.q_len <= Len(last.before.key)

\* the keys row t of a cache-free call over t + 1 tokens admits
CacheFreeRow(t) ==
    { pr[2] : pr \in { x \in AttentionCall(NoCache, t + 1, Ones(t + 1), FALSE, FALSE).pairs :
                         x[1] = t } }

\* C4: a length-1 cached forward call at step t gives its query exactly the
\* keys {0..t}, the keys of the tokens 0..t being written in the cache, and
\* that is the key set of row t of a cache-free call.
C4_IncrementalEqualsBatch ==
    (CachedForward /\ last.q_len = 1) =>
        LET t == last.before.index
        IN  /\ last.status = "ok"
            /\ { pr[2] : pr \in last.pairs } = 0..t
            /\ \A j \in 0..t : last.returned.key[j + 1] = j + 1
            /\ CacheFreeRow(t) = 0..t

\* C5: a cached forward call that prefills P >= 2 tokens into an empty
\* cache gives every query position i the keys {0..i} and returns the cache
\* with cursor P, from where the decode steps go on.
C5_PrefillThenDecode ==
    (CachedForward /\ last.q_len >= 2 /\ last.before.index = 0) =>
        /\ last.status = "ok"
        /\ last.pairs = { pr \in (0..(last.q_len - 1)) \X (0..(last.q_len - 1)) :
                             pr[2] <= pr[1] }
        /\ last.returned.index = last.q_len

\* C7: a call with position_ids left out and a cache raises the ValueError
\* of line 542 before the module runs, with the cache as it was; with
\* position_ids left out and no cache the position ids are 0..S-1; with
\* attention_mask left out the mask is all ones of length S.
C7_Defaults ==
    last.op = "forward" =>
        /\ (~last.given_pos /\ last.given_cache) =>
              /\ last.status = "ValueError_542"
              /\ ~last.ran
              /\ cache = last.before
        /\ (last.given_pos \/ ~last.given_cache) =>
              /\ last.status # "ValueError_542"
              /\ last.ran
        /\ (~last.given_pos /\ ~last.given_cache) =>
              last.position_ids = [i \in 1..last.q_len |-> i - 1]
        /\ (last.given_mask = NoMask /\ last.ran) =>
              last.attention_mask = [i \in 1..last.q_len |-> TRUE]

\* a call on a cache with position_ids left out
C7_Witness ==
    /\ last.op = "forward"
    /\ ~last.given_pos /\ last.given_cache
    /\ last.before.present
    /\ last.status = "ValueError_542"

\* C8: a call given a cache returns the updated cache as a new value and
\* leaves the caller's cache as it was; a call given no cache returns no
\* cache and creates no cache state.
C8_CacheInCacheOut ==
    /\ CachedForward =>
          /\ last.status = "ok"
          /\ last.returned.present
          /\ last.returned.index = last.before.index + last.q_len
          /\ cache = last.before
    /\ (last.op = "forward" /\ ~last.given_cache) =>
          /\ ~last.returned.present
          /\ last.status = "ok" => ~last.scope.present

(* ---------------------- the partition rules (SpecShard) -------------- *)

\* C10: for every parameter name the model produces, under both profiles,
\* evaluation of the rules in declared order ends at a matching rule, the
\* first one that matches, and the axis assignment returned is non-empty;
\* the wildcard rule is the last rule, and only the last, of both profiles.
C10_ShardingCoverage ==
    /\ plan.done =>
          LET rules == get_partition_rules(plan.fully_fsdp)
          IN  /\ plan.matched
              /\ plan.i \in 1..Len(rules)
              /\ search(rules[plan.i].pattern, plan.name)
              /\ \A k \in 1..(plan.i - 1) : ~search(rules[k].pattern, plan.name)
              /\ plan.ps = rules[plan.i].ps
              /\ Len(plan.ps) > 0
    /\ \A f \in BOOLEAN :
          LET rules == get_partition_rules(f)
          IN  \A k \in 1..Len(rules) : (rules[k].pattern = Wildcard) <=> (k = Len(rules))

\* a name only the wildcard covers, resolved
C10_Witness ==
    /\ plan.done /\ plan.matched
    /\ plan.name = <<"norm", "kernel">>
    /\ plan.i = Len(get_partition_rules(plan.fully_fsdp))
    /\ Len(plan.ps) > 0

(* ---------------------- head replication (SpecHeads) ----------------- *)

\* C19: repeat_kv with ratio n returns num_kv_heads * n heads, output head
\* h (counted from 0) being the copy of input head floor(h / n), so that
\* every input head is copied n times into consecutive heads; for n = 1
\* the input is returned unchanged.
C19_HeadReplication ==
    last.op = "repeat_kv" =>
        /\ Len(last.out) = Len(last.x) * last.n_rep
        /\ \A h \in 0..(Len(last.out) - 1) :
              last.out[h + 1] = last.x[(h \div last.n_rep) + 1]
        /\ last.n_rep = 1 => last.out = last.x

(* ---------------------- the cache, continued (SpecCache) ------------- *)

\* C17: an append changes no entry an earlier call wrote (the positions
\* below the cursor it started from), leaves zeros at and beyond the new
\* cursor, and does not decrease the cursor.
C17_AppendOnly ==
    (Appended /\ last.status = "ok") =>
        /\ \A p \in 1..Len(cache.key) :
              p <= last.before.index =>
                 /\ cache.key[p] = last.before.key[p]
                 /\ cache.value[p] = last.before.value[p]
        /\ \A p \in 1..Len(cache.key) :
              p > cache.index => (cache.key[p] = 0 /\ cache.value[p] = 0)
        /\ cache.index >= last.before.index

(* ---------------------- shapes of an append (SpecShape) -------------- *)

\* C15: an append whose new keys and values differ from the buffers in
\* batch size, head count or head_dim ends in an error (any raised error is
\* taken for the ShapeMismatchError), writes nothing and leaves the cursor;
\* a smaller batch than the cache's is not written into part of the buffer.
C15_ShapeMismatchRejected ==
    (/\ last.op = "concat_shaped"
     /\ \E a \in {1, 3, 4} : last.update[a] # last.buffer[a]) =>
        /\ last.status # "ok"
        /\ last.written = {}
        /\ last.start = 0

(* ---------------------- the attention, continued (SpecAttn) ---------- *)

\* the last operation was an attention call of no more tokens than the
\* causal mask has rows, which built its masks
BuiltMasks ==
    /\ last.op = "attn"
    /\ last.q_len <= config.c_max_position_embeddings
    /\ last.status \in {"ok", "ValueError_361", "TypeError_382"}

C16_InitCache ==
    last.op = "init_cache" =>
        /\ last.status = "ok"
        /\ last.returned.present
        /\ last.returned.key = [p \in 1..last.q_len |-> 0]
        /\ last.returned.value = [p \in 1..last.q_len |-> 0]
        /\ last.returned.index = 0
        /\ cache_heads(attn) = attn.num_key_value_heads

(* ---------------------- the causal-LM model (SpecLM) ----------------- *)

\* the last operation was a forward call of the causal-LM model, of no
\* more tokens than the causal mask has rows, on a config whose heads
\* split the hidden size
LMForwardCall ==
    /\ last.op = "lm_forward"
    /\ last.q_len <= config.c_max_position_embeddings
    /\ attn.head_dim * attn.num_heads = config.hidden_size

\* a cache-free forward call without the optional outputs
PlainForward ==
    /\ LMForwardCall
    /\ ~last.given_cache
    /\ ~last.output_attentions /\ ~last.output_hidden_states

\* C11: with tie_word_embeddings the forward call completes and its logits
\* are the final hidden state projected through the transposed embedding of
\* embed_tokens; without it the logits come from lm_head. Stated for the
\* calls whose mask the attention layers accept (rank 1).
C11_TiedEmbeddings ==
    (PlainForward /\ last.given_mask.ndim = 1) =>
        /\ last.status = "ok"
        /\ last.logits.of = Hidden(config.num_hidden_layers, TRUE)
        /\ last.logits.via = IF config.tie_word_embeddings
                             THEN "embed_tokens.embedding.T" ELSE "lm_head"

\* C12: a forward call with output_hidden_states completes and returns the
\* input of layer 0, then of every following layer in order, then the final
\* normalized hidden state (num_hidden_layers + 1 entries); without it no
\* hidden states are returned.
C12_HiddenStates ==
    (LMForwardCall /\ ~last.given_cache /\ ~last.output_attentions
        /\ ~config.tie_word_embeddings) =>
        /\ last.status = "ok"
        /\ last.hidden_states =
              IF last.output_hidden_states
              THEN Some([l \in 1..(config.num_hidden_layers + 1) |->
                           IF l <= config.num_hidden_layers
                           THEN Hidden(l - 1, FALSE)
                           ELSE Hidden(config.num_hidden_layers, TRUE)])
              ELSE None

\* C13: a forward call with output_attentions completes and returns one
\* entry per decoder layer, in layer order; without it none are returned.
\* Stated for the calls whose mask the attention layers accept (rank 1).
C13_Attentions ==
    (LMForwardCall /\ ~last.given_cache /\ ~last.output_hidden_states
        /\ ~config.tie_word_embeddings /\ last.given_mask.ndim = 1) =>
        /\ last.status = "ok"
        /\ last.attentions.some = last.output_attentions
        /\ last.output_attentions =>
              Len(last.attentions.vals) = config.num_hidden_layers

C14_GenerationInputs ==
    /\ (/\ last.op = "prepare"
        /\ attn.head_dim * attn.num_heads = config.hidden_size
        /\ last.q_len <= last.max_length
        /\ last.max_length <= config.c_max_position_embeddings) =>
           /\ last.status = "ok"
           /\ last.returned.present
           /\ last.position_ids[1] = last.returned.index
           /\ Len(last.attention_mask) = Len(last.returned.key)
    /\ last.op = "update_inputs" => last.next_position_ids = <<last.cursor>>

=============================================================================
